---- MODULE Spec2Model ----
(***************************************************************************)
(* Wythoff construction of uniform polytopes (src/polytopes/models.py):    *)
(* BasePolytope, Polyhedra, Snub and Polychora, with the coset enumeration *)
(* collaborator (todd_coxeter.CosetTable) and helpers.check_duplicate_face *)
(* modelled from their contracts.                                          *)
(*                                                                         *)
(* Python tuples and lists are sequences; a Python index k is position     *)
(* k + 1 of the sequence. Coset, vertex and generator numbers keep the     *)
(* program's 0-based values.                                               *)
(***************************************************************************)
EXTENDS Integers, Sequences, FiniteSets, TLC

\* Python's None, for a count not calculated yet
None == -1

\* Python's None, for the vertex table not built yet
NoTable == <<>>

\* ------------------------------------------------------------------------
\* Sequence helpers (Python tuple operations)
\* ------------------------------------------------------------------------

\* word * k : the tuple repeated k times
RECURSIVE Repeat(_, _)
Repeat(word, k) == IF k <= 0 THEN <<>> ELSE word \o Repeat(word, k - 1)

\* x in list
InList(x, list) == \E k \in 1..Len(list) : list[k] = x

\* f[::-1]
Reverse(f) == [k \in 1..Len(f) |-> f[Len(f) + 1 - k]]

\* itertools.combinations(gens, 2) in lexicographic order
RECURSIVE PairsFrom(_, _, _)
PairsFrom(gens, a, b) ==
    IF a >= Len(gens) THEN <<>>
    ELSE IF b > Len(gens) THEN PairsFrom(gens, a + 1, a + 2)
    ELSE <<(<<gens[a], gens[b]>>)>> \o PairsFrom(gens, a, b + 1)

combinations(gens) == PairsFrom(gens, 1, 2)

\* ------------------------------------------------------------------------
\* Loops: `while not Done(s): s = Step(s)`
\* ------------------------------------------------------------------------

\* at most 2^k steps of the loop
RECURSIVE Steps(_, _, _, _)
Steps(Step(_), Done(_), s, k) ==
    IF Done(s) THEN s
    ELSE IF k = 0 THEN Step(s)
    ELSE Steps(Step, Done, Steps(Step, Done, s, k - 1), k - 1)

\* the loop run to its end
RECURSIVE While(_, _, _, _)
While(Step(_), Done(_), s, k) ==
    IF Done(s) THEN s ELSE While(Step, Done, Steps(Step, Done, s, k), k + 1)

\* ------------------------------------------------------------------------
\* todd_coxeter.CosetTable: HLT coset enumeration over a presentation.
\* A table state is [table |-> rows, p |-> equivalence representatives,
\* q |-> queue of dead cosets]; table[c + 1][x + 1] is the coset reached
\* from coset c by generator x.
\* ------------------------------------------------------------------------

\* the column of the inverse of generator x
inv(x, coxeter) == IF coxeter THEN x ELSE IF x % 2 = 0 THEN x + 1 ELSE x - 1

is_alive(S, c) == S.p[c + 1] = c

is_defined(S, c, x) == S.table[c + 1][x + 1] # None

EmptyRow(ngens) == [x \in 1..ngens |-> None]

\* table[c][x] = d and table[d][inv x] = c
SetEntry(S, c, x, d, coxeter) ==
    [S EXCEPT !.table = [[@ EXCEPT ![c + 1][x + 1] = d]
                            EXCEPT ![d + 1][inv(x, coxeter) + 1] = c]]

\* define a new coset as the image of c under x
define(S, c, x, coxeter) ==
    SetEntry([S EXCEPT !.table = Append(@, EmptyRow(Len(S.table[1]))),
                       !.p = Append(@, Len(S.table))],
             c, x, Len(S.table), coxeter)

\* the representative of a coset's equivalence class
RECURSIVE rep(_, _)
rep(p, k) == IF p[k + 1] = k THEN k ELSE rep(p, p[k + 1])

\* merge two classes known by their representatives: the larger one dies
MergeReps(S, phi, psi) ==
    IF phi = psi THEN S
    ELSE IF phi < psi THEN [S EXCEPT !.p[psi + 1] = phi, !.q = Append(@, psi)]
    ELSE [S EXCEPT !.p[phi + 1] = psi, !.q = Append(@, phi)]

merge(S, k, l) == MergeReps(S, rep(S.p, k), rep(S.p, l))

\* the entry e -x-> f of a dead coset e, moved to the representatives
Relink(S, e1, f1, x, coxeter) ==
    IF is_defined(S, e1, x) THEN merge(S, f1, S.table[e1 + 1][x + 1])
    ELSE IF is_defined(S, f1, inv(x, coxeter))
    THEN merge(S, e1, S.table[f1 + 1][inv(x, coxeter) + 1])
    ELSE SetEntry(S, e1, x, f1, coxeter)

MoveEntry(S, e, f, x, coxeter) ==
    Relink([S EXCEPT !.table[f + 1][inv(x, coxeter) + 1] = None],
           rep(S.p, e), rep(S.p, f), x, coxeter)

\* every entry of the dead coset e moved, column by column
RECURSIVE MoveRow(_, _, _, _)
MoveRow(S, e, x, coxeter) ==
    IF x >= Len(S.table[1]) THEN S
    ELSE MoveRow(IF is_defined(S, e, x)
                 THEN MoveEntry(S, e, S.table[e + 1][x + 1], x, coxeter)
                 ELSE S,
                 e, x + 1, coxeter)

\* cosets a and b are the same: merge them and work the queue off
coincidence(S, a, b, coxeter) ==
    While(LAMBDA T : MoveRow([T EXCEPT !.q = Tail(@)], T.q[1], 0, coxeter),
          LAMBDA T : T.q = <<>>,
          merge(S, a, b), 0)

\* scan forward from lv along word[lp..rp] while entries are defined
RECURSIVE ScanForward(_, _, _, _, _)
ScanForward(S, word, lv, lp, rp) ==
    IF lp <= rp /\ is_defined(S, lv, word[lp])
    THEN ScanForward(S, word, S.table[lv + 1][word[lp] + 1], lp + 1, rp)
    ELSE <<lv, lp>>

\* scan backward from rv along the inverses of word[lp..rp]
RECURSIVE ScanBackward(_, _, _, _, _, _)
ScanBackward(S, word, rv, lp, rp, coxeter) ==
    IF rp >= lp /\ is_defined(S, rv, inv(word[rp], coxeter))
    THEN ScanBackward(S, word, S.table[rv + 1][inv(word[rp], coxeter) + 1], lp, rp - 1, coxeter)
    ELSE <<rv, rp>>

\* one pass of scan_and_fill's loop: a forward scan, then a backward scan,
\* then a coincidence, a deduction or a new coset and another pass
RECURSIVE ScanLoop(_, _, _, _, _, _, _)
AfterBackward(S, word, lv, lp, b, coxeter) ==
    IF b[2] < lp THEN coincidence(S, lv, b[1], coxeter)
    ELSE IF b[2] = lp THEN SetEntry(S, lv, word[lp], b[1], coxeter)
    ELSE ScanLoop(define(S, lv, word[lp], coxeter), word, lv, lp, b[1], b[2], coxeter)

AfterForward(S, word, f, rv0, rp0, coxeter) ==
    IF f[2] > rp0
    THEN (IF f[1] # rv0 THEN coincidence(S, f[1], rv0, coxeter) ELSE S)
    ELSE AfterBackward(S, word, f[1], f[2],
                       ScanBackward(S, word, rv0, f[2], rp0, coxeter), coxeter)

ScanLoop(S, word, lv0, lp0, rv0, rp0, coxeter) ==
    AfterForward(S, word, ScanForward(S, word, lv0, lp0, rp0), rv0, rp0, coxeter)

\* make the word a loop at the coset, defining cosets as needed
scan_and_fill(S, coset, word, coxeter) ==
    IF word = <<>> THEN S
    ELSE ScanLoop(S, word, coset, 1, coset, Len(word), coxeter)

\* scan every word of the list at the coset, while the coset is alive
RECURSIVE ScanAll(_, _, _, _, _)
ScanAll(S, coset, words, k, coxeter) ==
    IF k > Len(words) \/ ~is_alive(S, coset) THEN S
    ELSE ScanAll(scan_and_fill(S, coset, words[k], coxeter), coset, words, k + 1, coxeter)

\* define every undefined entry of the coset's row, if the coset is alive
RECURSIVE FillRow(_, _, _, _)
FillRow(S, coset, x, coxeter) ==
    IF x >= Len(S.table[1]) \/ ~is_alive(S, coset) THEN S
    ELSE FillRow(IF is_defined(S, coset, x) THEN S ELSE define(S, coset, x, coxeter),
                 coset, x + 1, coxeter)

\* the main loop of run(): close the table coset by coset
RunLoop(S, rels, coxeter) ==
    While(LAMBDA R : [S |-> FillRow(ScanAll(R.S, R.current, rels, 1, coxeter),
                                    R.current, 0, coxeter),
                      current |-> R.current + 1],
          LAMBDA R : R.current >= Len(R.S.table),
          [S |-> S, current |-> 0], 0).S

\* a coset found by the walk: kept with its word if it is new
Discover(st, d, word) ==
    IF InList(d, st.order) THEN st
    ELSE [st EXCEPT !.order = Append(@, d), !.words = Append(@, word)]

\* the cosets reached from the head coset by one generator
RECURSIVE Expand(_, _, _, _)
Expand(T, wgens, st, k) ==
    IF k > Len(wgens) THEN st
    ELSE Expand(T, wgens,
                Discover(st, T[st.order[st.head] + 1][wgens[k] + 1],
                         Append(st.words[st.head], wgens[k])),
                k + 1)

\* breadth-first walk of the closed table from coset 0: `order` lists the
\* live cosets in the order found, `words` their representative words.
Walk(T, wgens) ==
    While(LAMBDA st : [Expand(T, wgens, st, 1) EXCEPT !.head = @ + 1],
          LAMBDA st : st.head > Len(st.order),
          [order |-> <<0>>, words |-> <<(<<>>)>>, head |-> 1], 0)

\* the generators words are written in: all of them for a Coxeter group,
\* the even ones (the generators proper, not their inverses) otherwise
WordGens(gens, coxeter) ==
    IF coxeter THEN gens
    ELSE [k \in 1..((Len(gens) + 1) \div 2) |-> gens[2 * k - 1]]

\* the number a coset gets: its place in the order of the walk
NewNumber(order, c) == (CHOOSE k \in 1..Len(order) : order[k] = c) - 1

\* compress() and standardize(): the live cosets renumbered in walk order
Standardize(T, st, ngens) ==
    [table |-> [k \in 1..Len(st.order) |->
                  [x \in 1..ngens |-> NewNumber(st.order, T[st.order[k] + 1][x])]],
     words |-> st.words]

Compress(T, gens, coxeter) ==
    Standardize(T, Walk(T, WordGens(gens, coxeter)), Len(gens))

\* CosetTable(gens, rels, subgens, coxeter).run(): the compressed and
\* standardized table with one shortest representative word per coset
CosetTable(gens, rels, subgens, coxeter) ==
    Compress(RunLoop(ScanAll([table |-> <<EmptyRow(Len(gens))>>, p |-> <<0>>, q |-> <<>>],
                             0, subgens, 1, coxeter),
                     rels, coxeter).table,
             gens, coxeter)

\* ------------------------------------------------------------------------
\* helpers (collaborators of models.py)
\* ------------------------------------------------------------------------

\* helpers.get_coxeter_matrix: the symmetric matrix with unit diagonal whose
\* upper triangle, row by row, is the given tuple (3 entries: 3x3, 6: 4x4)
get_coxeter_matrix(upper_triangle) ==
    LET dim == IF Len(upper_triangle) = 3 THEN 3 ELSE 4
        \* position of entry (i, j), i < j, in the row-major upper triangle
        at(i, j) == ((i - 1) * (2 * dim - i)) \div 2 + (j - i)
    IN  [i \in 1..dim |-> [j \in 1..dim |->
            IF i = j THEN 1
            ELSE IF i < j THEN upper_triangle[at(i, j)]
            ELSE upper_triangle[at(j, i)]]]

\* helpers.check_duplicate_face(f, l): f, in any cyclic order or reversed,
\* is already in the list l
RECURSIVE DuplicateScan(_, _, _)
DuplicateScan(f, l, n) ==
    IF n = 0 THEN FALSE
    ELSE IF InList(f, l) \/ InList(Reverse(f), l) THEN TRUE
    ELSE DuplicateScan(<<f[Len(f)]>> \o SubSeq(f, 1, Len(f) - 1), l, n - 1)

check_duplicate_face(f, l) == DuplicateScan(f, l, Len(f))

\* A vector is kept symbolically: the sequence of reflections applied to
\* the initial point (np.dot(vector, reflections[w]) appends w).
init_v == <<>>

\* ------------------------------------------------------------------------
\* Bounds of the model and the inputs drawn
\* ------------------------------------------------------------------------

\* largest order p of the 3D diagrams (p, 2, 3)
MaxP == 4

\* most method calls made on one object
MaxCalls == 2

\* longest tuple tried for the arity checks
MaxArity == 7

\* 3D Coxeter-Dynkin diagrams of finite groups
Matrices3 == {<<p, 2, 3>> : p \in 2..MaxP} \cup {<<2, 2, 2>>, <<3, 3, 2>>}

\* 4D Coxeter-Dynkin diagrams of finite groups
Matrices4 == {<<2, 2, 2, 2, 2, 2>>, <<3, 2, 2, 2, 2, 3>>, <<3, 2, 2, 3, 2, 3>>}

\* distance vectors: 0 is a vertex on the mirror, 1 a vertex off it; not all 0
Dists(n) == {d \in [1..n -> {0, 1}] : \E k \in 1..n : d[k] # 0}

\* tuples of every length pair, for the arity checks
ArityProbes ==
    {<<[k \in 1..lu |-> 2], [k \in 1..ld |-> 1]>> : lu \in 0..MaxArity, ld \in 0..MaxArity}

Classes == {"Polyhedra", "Snub", "Polychora"}

\* the arguments a constructor is called with
Inputs(c) ==
    ArityProbes \cup
    (IF c = "Polyhedra" THEN Matrices3 \X Dists(3)
     ELSE IF c = "Snub" THEN Matrices3 \X {<<1, 1, 1>>}
     ELSE Matrices4 \X Dists(4))

\* ------------------------------------------------------------------------
\* The polytope object
\* ------------------------------------------------------------------------

VARIABLES
    cls,              \* the class constructed
    status,           \* "new", "raised" (ValueError of the arity check),
                      \* "malformed" (BasePolytope.__init__ entered with tuples
                      \* its collaborators cannot use) or "ok"
    upper_triangle, init_dist,
    coxeter_matrix, active, symmetry_gens, symmetry_rels, rotations,
    _vtable, _vwords,
    num_vertices, vertex_coords,
    num_edges, edge_indices, edge_coords,
    num_faces, face_indices, face_coords,
    calls             \* calls made so far, per method

vars == <<cls, status, upper_triangle, init_dist, coxeter_matrix, active,
          symmetry_gens, symmetry_rels, rotations, _vtable, _vwords,
          num_vertices, vertex_coords, num_edges, edge_indices, edge_coords,
          num_faces, face_indices, face_coords, calls>>

inputVars == <<cls, status, upper_triangle, init_dist, coxeter_matrix, active,
               symmetry_gens, symmetry_rels, rotations>>

vertexVars == <<_vtable, _vwords, num_vertices, vertex_coords>>

edgeVars == <<num_edges, edge_indices, edge_coords>>

faceVars == <<num_faces, face_indices, face_coords>>

TotalCalls == calls.build + calls.v + calls.e + calls.f

\* ------------------------------------------------------------------------
\* Constructors
\* ------------------------------------------------------------------------

\* Polyhedra.__init__ (and Snub through super().__init__): the arity check
Polyhedra_raises(ut, dist) == ~(Len(ut) = Len(dist) /\ Len(dist) = 3)

\* Polychora.__init__: the arity check
Polychora_raises(ut, dist) == (~(Len(ut) = 6)) /\ Len(dist) = 4

arity_raises(c, ut, dist) ==
    IF c = "Polychora" THEN Polychora_raises(ut, dist) ELSE Polyhedra_raises(ut, dist)

\* the tuples BasePolytope.__init__'s collaborators can use
Usable(ut, dist) ==
    \/ Len(ut) = 3 /\ Len(dist) = 3
    \/ Len(ut) = 6 /\ Len(dist) = 4

\* BasePolytope.__init__: relations between the generators
base_symmetry_rels(gens, m) ==
    LET prs == combinations(gens)
    IN  [k \in 1..Len(prs) |-> Repeat(prs[k], m[prs[k][1] + 1][prs[k][2] + 1])]

\* Snub.__init__: relations of the rotation subgroup
snub_symmetry_rels(m) ==
    <<Repeat(<<0>>, m[1][2]), Repeat(<<2>>, m[2][3]), Repeat(<<0, 2>>, m[1][3]),
      <<0, 1>>, <<2, 3>>>>

\* Snub.__init__: the rotations with their orders, in insertion order
snub_rotations(m) ==
    <<[rot |-> <<0>>, order |-> m[1][2]],
      [rot |-> <<2>>, order |-> m[2][3]],
      [rot |-> <<0, 2>>, order |-> m[1][3]]>>

Construct(c, ut, dist) ==
    /\ status = "new"
    /\ cls' = c
    /\ upper_triangle' = ut
    /\ init_dist' = dist
    /\ IF arity_raises(c, ut, dist)
       THEN /\ status' = "raised"
            /\ UNCHANGED <<coxeter_matrix, active, symmetry_gens, symmetry_rels, rotations>>
       ELSE IF ~Usable(ut, dist)
       THEN /\ status' = "malformed"
            /\ UNCHANGED <<coxeter_matrix, active, symmetry_gens, symmetry_rels, rotations>>
       ELSE LET m == get_coxeter_matrix(ut)
                gens == [k \in 1..Len(m) |-> k - 1]
            IN  /\ status' = "ok"
                /\ coxeter_matrix' = m
                /\ active' = [k \in 1..Len(dist) |-> dist[k] # 0]
                /\ symmetry_gens' = IF c = "Snub" THEN <<0, 1, 2, 3>> ELSE gens
                /\ symmetry_rels' = IF c = "Snub" THEN snub_symmetry_rels(m)
                                    ELSE base_symmetry_rels(gens, m)
                /\ rotations' = IF c = "Snub" THEN snub_rotations(m) ELSE <<>>
    /\ UNCHANGED <<vertexVars, edgeVars, faceVars, calls>>

\* ------------------------------------------------------------------------
\* Moving vertices and vectors by words
\* ------------------------------------------------------------------------

\* _move with the loop left after its first step
_move_first(vtable, vertex, word) ==
    IF word = <<>> THEN vertex ELSE vtable[vertex + 1][word[1] + 1]

\* BasePolytope._move: the index of the vertex moved by the word
RECURSIVE _move(_, _, _)
_move(vtable, vertex, word) ==
    IF word = <<>> THEN vertex
    ELSE _move(vtable, vtable[vertex + 1][word[1] + 1], Tail(word))

\* BasePolytope._transform: the vector reflected in the mirrors of the word
_transform(vector, word) == vector \o word

\* Snub._transform: generator 0 is the rotation by mirrors 0, 1 and every
\* other one the rotation by mirrors 1, 2
RECURSIVE Snub_transform(_, _)
Snub_transform(vertex, word) ==
    IF word = <<>> THEN vertex
    ELSE Snub_transform(vertex \o (IF word[1] = 0 THEN <<0, 1>> ELSE <<1, 2>>), Tail(word))

\* ------------------------------------------------------------------------
\* Vertices
\* ------------------------------------------------------------------------

\* the stabilizing generators taken from the active mirrors
RECURSIVE StabilizerGens_active(_, _)
StabilizerGens_active(act, k) ==
    IF k > Len(act) THEN <<>>
    ELSE (IF act[k] THEN <<(<<k - 1>>)>> ELSE <<>>) \o StabilizerGens_active(act, k + 1)

\* generators of the stabilizing subgroup of the initial vertex
RECURSIVE StabilizerGens(_, _)
StabilizerGens(act, k) ==
    IF k > Len(act) THEN <<>>
    ELSE (IF act[k] THEN <<>> ELSE <<(<<k - 1>>)>>) \o StabilizerGens(act, k + 1)

\* the vertices counted without the initial one
VertexFields_off_by_one(t, coords) ==
    [vtable |-> t.table, vwords |-> t.words, num_vertices |-> Len(t.words) - 1,
     vertex_coords |-> coords]

\* the fields get_vertices stores, from the table that was run
VertexFields(t, coords) ==
    [vtable |-> t.table, vwords |-> t.words, num_vertices |-> Len(t.words),
     vertex_coords |-> coords]

BaseCoords(words) == [k \in 1..Len(words) |-> _transform(init_v, words[k])]

SnubCoords(words) == [k \in 1..Len(words) |-> Snub_transform(init_v, words[k])]

BaseVertexFields(t) == VertexFields(t, BaseCoords(t.words))

SnubVertexFields(t) == VertexFields(t, SnubCoords(t.words))

\* BasePolytope.get_vertices
Base_get_vertices(gens, rels, act) ==
    BaseVertexFields(CosetTable(gens, rels, StabilizerGens(act, 1), TRUE))

\* Snub.get_vertices
Snub_get_vertices(gens, rels) ==
    SnubVertexFields(CosetTable(gens, rels, <<>>, FALSE))

VerticesOf(c, gens, rels, act) ==
    IF c = "Snub" THEN Snub_get_vertices(gens, rels) ELSE Base_get_vertices(gens, rels, act)

\* ------------------------------------------------------------------------
\* Edges
\* ------------------------------------------------------------------------

\* the coordinates of vertex-index tuples
CoordsOf(vcoords, list) ==
    [k \in 1..Len(list) |-> [n \in 1..Len(list[k]) |-> vcoords[list[k][n] + 1]]]

\* the edge stored unless its reverse is already there
AddEdge_reversed(elist, v1, v2) ==
    IF ~InList(<<v2, v1>>, elist) THEN Append(elist, <<v1, v2>>) ELSE elist

\* the body of the loop over the words: the edge is stored unless it, or
\* its reverse, is already there
AddEdge(elist, v1, v2) ==
    IF ~InList(<<v1, v2>>, elist) /\ ~InList(<<v2, v1>>, elist)
    THEN Append(elist, <<v1, v2>>)
    ELSE elist

\* the loop over the words with the mirror applied after the word
EdgeList_right(vtable, i, words) ==
    While(LAMBDA s : [k |-> s.k + 1,
                      list |-> AddEdge(s.list, _move(vtable, 0, words[s.k]),
                                       _move(vtable, 0, words[s.k] \o <<i>>))],
          LAMBDA s : s.k > Len(words),
          [k |-> 1, list |-> <<>>], 0).list

\* BasePolytope.get_edges: the loop over the words of type i
EdgeList(vtable, i, words) ==
    While(LAMBDA s : [k |-> s.k + 1,
                      list |-> AddEdge(s.list, _move(vtable, 0, words[s.k]),
                                       _move(vtable, 0, <<i>> \o words[s.k]))],
          LAMBDA s : s.k > Len(words),
          [k |-> 1, list |-> <<>>], 0).list

\* a finished list of one type appended to the lists, with its coordinates
AddList(acc, list, vcoords) ==
    [indices |-> Append(acc.indices, list),
     coords |-> Append(acc.coords, CoordsOf(vcoords, list))]

\* BasePolytope.get_edges: the loop over the mirrors
RECURSIVE EdgeTypes(_, _, _, _, _, _, _)
EdgeTypes(gens, rels, act, vtable, vcoords, k, acc) ==
    IF k > Len(act) THEN acc
    ELSE IF ~act[k] THEN EdgeTypes(gens, rels, act, vtable, vcoords, k + 1, acc)
    ELSE EdgeTypes(gens, rels, act, vtable, vcoords, k + 1,
                   AddList(acc,
                           EdgeList(vtable, k - 1,
                                    CosetTable(gens, rels, <<(<<k - 1>>)>>, TRUE).words),
                           vcoords))

\* the sum of the lengths of the lists
RECURSIVE SumLen(_)
SumLen(lists) == IF lists = <<>> THEN 0 ELSE Len(lists[1]) + SumLen(Tail(lists))

\* the fields get_edges stores
EdgeFields(acc) ==
    [edge_indices |-> acc.indices, edge_coords |-> acc.coords,
     num_edges |-> SumLen(acc.indices)]

Base_get_edges(gens, rels, act, vtable, vcoords, indices, coords) ==
    EdgeFields(EdgeTypes(gens, rels, act, vtable, vcoords, 1,
                         [indices |-> indices, coords |-> coords]))

\* the tuple of vertex indices moved by the word
MoveAll(vtable, f0, word) == [n \in 1..Len(f0) |-> _move(vtable, f0[n], word)]

\* the body of Snub's loop: the edge is stored unless it, or its reverse,
\* is already there
SnubAddEdge(elist, e) ==
    IF ~InList(e, elist) /\ ~InList(Reverse(e), elist) THEN Append(elist, e) ELSE elist

\* Snub.get_edges: the loop over the vertex words
SnubEdgeList(vtable, e0, words) ==
    While(LAMBDA s : [k |-> s.k + 1,
                      list |-> SnubAddEdge(s.list, MoveAll(vtable, e0, words[s.k]))],
          LAMBDA s : s.k > Len(words),
          [k |-> 1, list |-> <<>>], 0).list

\* Snub.get_edges: the loop over the rotations
RECURSIVE SnubEdgeTypes(_, _, _, _, _, _)
SnubEdgeTypes(rots, vtable, vwords, vcoords, k, acc) ==
    IF k > Len(rots) THEN acc
    ELSE SnubEdgeTypes(rots, vtable, vwords, vcoords, k + 1,
                       AddList(acc,
                               SnubEdgeList(vtable, <<0, _move(vtable, 0, rots[k].rot)>>,
                                            vwords),
                               vcoords))

Snub_get_edges(rots, vtable, vwords, vcoords, indices, coords) ==
    EdgeFields(SnubEdgeTypes(rots, vtable, vwords, vcoords, 1,
                             [indices |-> indices, coords |-> coords]))

\* ------------------------------------------------------------------------
\* Faces
\* ------------------------------------------------------------------------

\* the case of the mirror pair with commuting mirrors taken as a rotation
FaceCase_ge(act, m, i, j) ==
    IF act[i + 1] /\ act[j + 1] THEN "both"
    ELSE IF act[i + 1] /\ m[i + 1][j + 1] >= 2 THEN "first"
    ELSE IF act[j + 1] /\ m[i + 1][j + 1] >= 2 THEN "second"
    ELSE "none"

\* BasePolytope.get_faces: the case of the mirror pair (i, j)
FaceCase(act, m, i, j) ==
    IF act[i + 1] /\ act[j + 1] THEN "both"
    ELSE IF act[i + 1] /\ m[i + 1][j + 1] > 2 THEN "first"
    ELSE IF act[j + 1] /\ m[i + 1][j + 1] > 2 THEN "second"
    ELSE "none"

\* generators of the stabilizing subgroup of the base face
FaceGens(case, i, j) ==
    IF case = "both" THEN <<(<<i, j>>)>>
    ELSE IF case = "first" THEN <<(<<i, j>>), (<<i>>)>>
    ELSE <<(<<i, j>>), (<<j>>)>>

\* the base face that contains the initial vertex
RECURSIVE BaseFace(_, _, _, _, _, _)
BaseFace(vtable, case, i, j, k, order) ==
    IF k >= order THEN <<>>
    ELSE (IF case = "both"
          THEN <<_move(vtable, 0, Repeat(<<i, j>>, k)),
                 _move(vtable, 0, <<j>> \o Repeat(<<i, j>>, k))>>
          ELSE <<_move(vtable, 0, Repeat(<<i, j>>, k))>>)
         \o BaseFace(vtable, case, i, j, k + 1, order)

\* the face stored unless the very same tuple is already there
AddFace_exact(flist, f) == IF ~InList(f, flist) THEN Append(flist, f) ELSE flist

\* the body of the loop over the words: the face is stored unless it is a
\* duplicate
AddFace(flist, f) == IF ~check_duplicate_face(f, flist) THEN Append(flist, f) ELSE flist

\* the loop over the words: the images of the base face f0
FaceOrbit(vtable, f0, words) ==
    While(LAMBDA s : [k |-> s.k + 1,
                      list |-> AddFace(s.list, MoveAll(vtable, f0, words[s.k]))],
          LAMBDA s : s.k > Len(words),
          [k |-> 1, list |-> <<>>], 0).list

\* the faces of one type: the images of the base face under the words of
\* the enumeration modulo the stabilizing subgroup
FaceList(gens, rels, m, vtable, case, i, j) ==
    FaceOrbit(vtable, BaseFace(vtable, case, i, j, 0, m[i + 1][j + 1]),
              CosetTable(gens, rels, FaceGens(case, i, j), TRUE).words)

\* BasePolytope.get_faces: the loop over the mirror pairs
RECURSIVE FaceTypes(_, _, _, _, _, _, _, _, _)
FaceTypes(gens, rels, act, m, vtable, vcoords, prs, k, acc) ==
    IF k > Len(prs) THEN acc
    ELSE IF FaceCase(act, m, prs[k][1], prs[k][2]) = "none"
    THEN FaceTypes(gens, rels, act, m, vtable, vcoords, prs, k + 1, acc)
    ELSE FaceTypes(gens, rels, act, m, vtable, vcoords, prs, k + 1,
                   AddList(acc,
                           FaceList(gens, rels, m, vtable,
                                    FaceCase(act, m, prs[k][1], prs[k][2]),
                                    prs[k][1], prs[k][2]),
                           vcoords))

\* the fields get_faces stores
FaceFields(acc) ==
    [face_indices |-> acc.indices, face_coords |-> acc.coords,
     num_faces |-> SumLen(acc.indices)]

Base_get_faces(gens, rels, act, m, vtable, vcoords, indices, coords) ==
    FaceFields(FaceTypes(gens, rels, act, m, vtable, vcoords, combinations(gens), 1,
                         [indices |-> indices, coords |-> coords]))

\* the base faces without the triangle
SnubOrbits_two(rots, vtable) ==
    <<[k \in 1..rots[1].order |-> _move(vtable, 0, Repeat(<<0>>, k - 1))],
      [k \in 1..rots[2].order |-> _move(vtable, 0, Repeat(<<2>>, k - 1))]>>

\* Snub.get_faces: the three base faces
SnubOrbits(rots, vtable) ==
    <<[k \in 1..rots[1].order |-> _move(vtable, 0, Repeat(<<0>>, k - 1))],
      [k \in 1..rots[2].order |-> _move(vtable, 0, Repeat(<<2>>, k - 1))],
      <<0, _move(vtable, 0, <<2>>), _move(vtable, 0, <<0, 2>>)>>>>

\* Snub.get_faces: the loop over the base faces
RECURSIVE SnubFaceTypes(_, _, _, _, _, _)
SnubFaceTypes(orbits, vtable, vwords, vcoords, k, acc) ==
    IF k > Len(orbits) THEN acc
    ELSE SnubFaceTypes(orbits, vtable, vwords, vcoords, k + 1,
                       AddList(acc, FaceOrbit(vtable, orbits[k], vwords), vcoords))

Snub_get_faces(rots, vtable, vwords, vcoords, indices, coords) ==
    FaceFields(SnubFaceTypes(SnubOrbits(rots, vtable), vtable, vwords, vcoords, 1,
                             [indices |-> indices, coords |-> coords]))

\* ------------------------------------------------------------------------
\* The methods, dispatched on the class
\* ------------------------------------------------------------------------

EdgesOf(vtable, vwords, vcoords, indices, coords) ==
    IF cls = "Snub"
    THEN Snub_get_edges(rotations, vtable, vwords, vcoords, indices, coords)
    ELSE Base_get_edges(symmetry_gens, symmetry_rels, active, vtable, vcoords, indices, coords)

FacesOf(vtable, vwords, vcoords, indices, coords) ==
    IF cls = "Snub"
    THEN Snub_get_faces(rotations, vtable, vwords, vcoords, indices, coords)
    ELSE Base_get_faces(symmetry_gens, symmetry_rels, active, coxeter_matrix,
                        vtable, vcoords, indices, coords)

\* get_edges reads the vertex table: every Snub rotation does, and so does
\* every active mirror of the other classes
EdgesReadTable ==
    cls = "Snub" \/ \E k \in 1..Len(active) : active[k]

\* get_faces reads the vertex table: the Snub base faces do, and so does
\* every mirror pair that has a face
FacesReadTable ==
    \/ cls = "Snub"
    \/ \E i, j \in 0..(Len(coxeter_matrix) - 1) :
          i < j /\ FaceCase(active, coxeter_matrix, i, j) # "none"

get_vertices ==
    /\ status = "ok"
    /\ TotalCalls < MaxCalls
    /\ \E v \in {VerticesOf(cls, symmetry_gens, symmetry_rels, active)} :
           /\ _vtable' = v.vtable
           /\ _vwords' = v.vwords
           /\ num_vertices' = v.num_vertices
           /\ vertex_coords' = v.vertex_coords
    /\ calls' = [calls EXCEPT !.v = @ + 1]
    /\ UNCHANGED <<inputVars, edgeVars, faceVars>>

\* Without a vertex table the first _move raises and nothing is stored.
get_edges ==
    /\ status = "ok"
    /\ TotalCalls < MaxCalls
    /\ EdgesReadTable => _vtable # NoTable
    /\ \E e \in {EdgesOf(_vtable, _vwords, vertex_coords, edge_indices, edge_coords)} :
           /\ edge_indices' = e.edge_indices
           /\ edge_coords' = e.edge_coords
           /\ num_edges' = e.num_edges
    /\ calls' = [calls EXCEPT !.e = @ + 1]
    /\ UNCHANGED <<inputVars, vertexVars, faceVars>>

\* Without a vertex table the first _move raises and nothing is stored.
get_faces ==
    /\ status = "ok"
    /\ TotalCalls < MaxCalls
    /\ FacesReadTable => _vtable # NoTable
    /\ \E f \in {FacesOf(_vtable, _vwords, vertex_coords, face_indices, face_coords)} :
           /\ face_indices' = f.face_indices
           /\ face_coords' = f.face_coords
           /\ num_faces' = f.num_faces
    /\ calls' = [calls EXCEPT !.f = @ + 1]
    /\ UNCHANGED <<inputVars, vertexVars, edgeVars>>

build_geometry ==
    /\ status = "ok"
    /\ TotalCalls < MaxCalls
    /\ \E v \in {VerticesOf(cls, symmetry_gens, symmetry_rels, active)} :
       \E e \in {EdgesOf(v.vtable, v.vwords, v.vertex_coords, edge_indices, edge_coords)} :
       \E f \in {FacesOf(v.vtable, v.vwords, v.vertex_coords, face_indices, face_coords)} :
           /\ _vtable' = v.vtable
           /\ _vwords' = v.vwords
           /\ num_vertices' = v.num_vertices
           /\ vertex_coords' = v.vertex_coords
           /\ edge_indices' = e.edge_indices
           /\ edge_coords' = e.edge_coords
           /\ num_edges' = e.num_edges
           /\ face_indices' = f.face_indices
           /\ face_coords' = f.face_coords
           /\ num_faces' = f.num_faces
    /\ calls' = [calls EXCEPT !.build = @ + 1]
    /\ UNCHANGED inputVars

\* ------------------------------------------------------------------------
\* The specification
\* ------------------------------------------------------------------------

Init ==
    /\ cls = "none"
    /\ status = "new"
    /\ upper_triangle = <<>>
    /\ init_dist = <<>>
    /\ coxeter_matrix = <<>>
    /\ active = <<>>
    /\ symmetry_gens = <<>>
    /\ symmetry_rels = <<>>
    /\ rotations = <<>>
    /\ _vtable = NoTable
    /\ _vwords = <<>>
    /\ num_vertices = None
    /\ vertex_coords = <<>>
    /\ num_edges = None
    /\ edge_indices = <<>>
    /\ edge_coords = <<>>
    /\ num_faces = None
    /\ face_indices = <<>>
    /\ face_coords = <<>>
    /\ calls = [build |-> 0, v |-> 0, e |-> 0, f |-> 0]

Next ==
    \/ \E c \in Classes : \E in \in Inputs(c) : Construct(c, in[1], in[2])
    \/ get_vertices
    \/ get_edges
    \/ get_faces
    \/ build_geometry

Spec == Init /\ [][Next]_vars

\* ------------------------------------------------------------------------
\* Properties
\* ------------------------------------------------------------------------

Standard == cls \in {"Polyhedra", "Polychora"}

\* the times each builder has run on the object
VertexRuns == calls.build + calls.v

EdgeRuns == calls.build + calls.e

FaceRuns == calls.build + calls.f

\* build_geometry was called once on the new object, and nothing else
BuiltOnce == calls = [build |-> 1, v |-> 0, e |-> 0, f |-> 0]

\* the vertex indices
Vertices == 0..(num_vertices - 1)

\* the mirror pairs (i, j), i < j, in the order of the loop
MirrorPairs == combinations([k \in 1..Len(coxeter_matrix) |-> k - 1])

\* the members of a sequence that satisfy Test, in order
RECURSIVE Select(_, _, _)
Select(seq, Test(_), k) ==
    IF k > Len(seq) THEN <<>>
    ELSE (IF Test(seq[k]) THEN <<seq[k]>> ELSE <<>>) \o Select(seq, Test, k + 1)

\* C1: after get_vertices (standard and snub), num_vertices is the number
\* of cosets of the vertex table, and vertex_coords holds one entry per
\* coset, in coset order: the image of the initial point under the coset's
\* word. Nothing is dropped, merged or deduplicated.
C1_VertexPerCoset ==
    VertexRuns >= 1 =>
        /\ num_vertices = Len(_vtable)
        /\ num_vertices = Len(_vwords)
        /\ Len(vertex_coords) = num_vertices
        /\ \A k \in 1..Len(_vwords) :
               vertex_coords[k] = IF cls = "Snub" THEN Snub_transform(init_v, _vwords[k])
                                  ELSE _transform(init_v, _vwords[k])

C1_Witness ==
    /\ cls = "Polyhedra"
    /\ VertexRuns >= 1
    /\ upper_triangle = <<4, 2, 3>>
    /\ num_vertices = 48
    /\ Len(vertex_coords) = 48

\* C2: in every edge-type list of edge_indices no two entries are the same
\* undirected pair.
C2_EdgesUndirectedUnique ==
    \A t \in 1..Len(edge_indices) :
        \A a, b \in 1..Len(edge_indices[t]) :
            a # b => /\ edge_indices[t][a] # edge_indices[t][b]
                     /\ edge_indices[t][a] # Reverse(edge_indices[t][b])

\* the cube: the 24 words of the edge enumeration give 12 edges
C2_Witness ==
    /\ cls = "Polyhedra"
    /\ upper_triangle = <<4, 2, 3>>
    /\ init_dist = <<1, 0, 0>>
    /\ EdgeRuns = 1
    /\ Len(edge_indices) = 1
    /\ Len(edge_indices[1]) = 12

\* g is f rotated by some shift, or f reversed and rotated
SameCycle(f, g) ==
    /\ Len(f) = Len(g)
    /\ \E s \in 0..(Len(f) - 1) :
           \/ \A k \in 1..Len(f) : g[k] = f[((k - 1 + s) % Len(f)) + 1]
           \/ \A k \in 1..Len(f) : g[k] = f[((s + Len(f) - (k - 1)) % Len(f)) + 1]

\* C3: in every face-type list of face_indices no two entries are the same
\* cycle of vertex indices up to cyclic rotation and reversal.
C3_FacesCyclicUnique ==
    \A t \in 1..Len(face_indices) :
        \A a, b \in 1..Len(face_indices[t]) :
            a # b => ~SameCycle(face_indices[t][a], face_indices[t][b])

\* all mirrors of the octahedral group active: every face is met twice
C3_Witness ==
    /\ cls = "Polyhedra"
    /\ upper_triangle = <<4, 2, 3>>
    /\ init_dist = <<1, 1, 1>>
    /\ FaceRuns = 1
    /\ Len(face_indices) = 3
    /\ num_faces = 26

\* the tuples a class must refuse
WrongArity ==
    IF cls = "Polychora" THEN ~(Len(upper_triangle) = 6 /\ Len(init_dist) = 4)
    ELSE ~(Len(upper_triangle) = 3 /\ Len(init_dist) = 3)

\* C4: a constructor called with tuples of the wrong arity raises at once,
\* before BasePolytope.__init__ runs.
C4_WrongArityRaises ==
    (status # "new" /\ WrongArity) => status = "raised"

\* the faces of every type all have n vertices
FacesOfSize(n) ==
    \A t \in 1..Len(face_indices) :
        \A a \in 1..Len(face_indices[t]) : Len(face_indices[t][a]) = n

Scenario(ut, dist, nv, ne, nf, size) ==
    (cls = "Polyhedra" /\ BuiltOnce /\ upper_triangle = ut /\ init_dist = dist) =>
        /\ num_vertices = nv
        /\ num_edges = ne
        /\ num_faces = nf
        /\ FacesOfSize(size)

\* C5: build_geometry on a Polyhedra gives the tetrahedron for (3,2,3) and
\* (1,0,0), the cube for (4,2,3) and (1,0,0) and the octahedron for
\* (4,2,3) and (0,0,1).
C5_RegularSolids ==
    /\ Scenario(<<3, 2, 3>>, <<1, 0, 0>>, 4, 6, 4, 3)
    /\ Scenario(<<4, 2, 3>>, <<1, 0, 0>>, 8, 12, 6, 4)
    /\ Scenario(<<4, 2, 3>>, <<0, 0, 1>>, 6, 12, 8, 3)

C5_Witness ==
    /\ cls = "Polyhedra"
    /\ BuiltOnce
    /\ upper_triangle = <<4, 2, 3>>
    /\ init_dist = <<0, 0, 1>>
    /\ num_faces = 8

\* the order of the full reflection group of the object's Coxeter matrix
FullGroupOrder ==
    Len(CosetTable(<<0, 1, 2>>, base_symmetry_rels(<<0, 1, 2>>, coxeter_matrix),
                   <<>>, TRUE).words)

\* the three base cycles of the snub: the orbit of vertex 0 under r, its
\* orbit under s, and the triangle 0, s(0), rs(0)
SnubBaseCycles ==
    LET r(v) == _vtable[v + 1][1]
        s(v) == _vtable[v + 1][3]
    IN  <<(<<0, r(0), r(r(0))>>), (<<0, s(0), s(s(0))>>), (<<0, s(0), s(r(0))>>)>>

\* C6: the snub of (3,2,3) with the default distances has 12 vertices, the
\* order of the rotation subgroup and half the order 24 of the full group,
\* and exactly three face-type lists, the k-th made of images of the k-th
\* base cycle under the vertex words and holding that base cycle.
C6_SnubTetrahedron ==
    (cls = "Snub" /\ BuiltOnce /\ upper_triangle = <<3, 2, 3>> /\ init_dist = <<1, 1, 1>>) =>
        /\ num_vertices = 12
        /\ FullGroupOrder = 24
        /\ 2 * num_vertices = FullGroupOrder
        /\ Len(face_indices) = 3
        /\ \A k \in 1..3 :
               /\ InList(SnubBaseCycles[k], face_indices[k])
               /\ \A a \in 1..Len(face_indices[k]) :
                      \E n \in 1..Len(_vwords) :
                          face_indices[k][a] = MoveAll(_vtable, SnubBaseCycles[k], _vwords[n])

C6_Witness ==
    /\ cls = "Snub"
    /\ BuiltOnce
    /\ upper_triangle = <<3, 2, 3>>
    /\ init_dist = <<1, 1, 1>>
    /\ num_faces = 20

\* the relation words of the presentation: for the reflection groups every
\* (i, i) and every (i, j) repeated m[i][j] times, for the snub the words
\* of symmetry_rels
RelationWords ==
    IF cls = "Snub" THEN {symmetry_rels[k] : k \in 1..Len(symmetry_rels)}
    ELSE {<<i, i>> : i \in 0..(Len(coxeter_matrix) - 1)}
         \cup {Repeat(MirrorPairs[k],
                      coxeter_matrix[MirrorPairs[k][1] + 1][MirrorPairs[k][2] + 1]) :
               k \in 1..Len(MirrorPairs)}

\* C7: every relation word moves every vertex index back to itself.
C7_RelationsFixVertices ==
    VertexRuns >= 1 =>
        \A v \in Vertices : \A w \in RelationWords : _move(_vtable, v, w) = v

C7_Witness ==
    /\ cls = "Polyhedra"
    /\ VertexRuns >= 1
    /\ upper_triangle = <<4, 2, 3>>
    /\ num_vertices = 48
    /\ <<0, 1, 0, 1, 0, 1, 0, 1>> \in RelationWords

\* a mirror pair has faces: both mirrors active, or exactly one active and
\* the mirrors not commuting
HasFaces(pr) ==
    LET ai == active[pr[1] + 1]
        aj == active[pr[2] + 1]
    IN  \/ ai /\ aj
        \/ (ai # aj) /\ coxeter_matrix[pr[1] + 1][pr[2] + 1] > 2

\* the number of vertices of a face of the pair
FaceSize(pr) ==
    IF active[pr[1] + 1] /\ active[pr[2] + 1]
    THEN 2 * coxeter_matrix[pr[1] + 1][pr[2] + 1]
    ELSE coxeter_matrix[pr[1] + 1][pr[2] + 1]

\* the mirror pairs that have faces, in the order of the loop
PairsWithFaces == Select(MirrorPairs, HasFaces, 1)

\* C8: one run of the standard get_faces stores one list per mirror pair
\* that has faces, in the order of the pairs, and none for the other pairs;
\* every face of a pair with both mirrors active has 2 * m[i][j] vertices
\* and every face of a pair with one active mirror has m[i][j].
C8_FaceTypes ==
    (Standard /\ status = "ok" /\ FaceRuns = 1) =>
        /\ Len(face_indices) = Len(PairsWithFaces)
        /\ \A t \in 1..Len(face_indices) :
               /\ face_indices[t] # <<>>
               /\ \A a \in 1..Len(face_indices[t]) :
                      Len(face_indices[t][a]) = FaceSize(PairsWithFaces[t])

\* the truncated cube: octagons for the pair (0, 1), triangles for (1, 2)
\* and nothing for the commuting pair (0, 2) with its one active mirror
C8_Witness ==
    /\ cls = "Polyhedra"
    /\ upper_triangle = <<4, 2, 3>>
    /\ init_dist = <<1, 1, 0>>
    /\ FaceRuns = 1
    /\ Len(face_indices) = 2
    /\ Len(face_indices[1][1]) = 8
    /\ Len(face_indices[2][1]) = 3

\* the active mirrors, in increasing order
ActiveMirrors ==
    Select([k \in 1..Len(active) |-> k - 1], LAMBDA i : active[i + 1], 1)

\* the representative words of the enumeration modulo <(i)>
EdgeWords(i) == CosetTable(symmetry_gens, symmetry_rels, <<(<<i>>)>>, TRUE).words

\* C9: one run of the standard get_edges stores one list per active
\* mirror, in increasing mirror index, and none for an inactive mirror; an
\* edge of type i is (_move(0, w), _move(0, (i,) + w)) for a word w of the
\* enumeration modulo <(i)>, and its two ends differ.
C9_EdgeTypes ==
    (Standard /\ status = "ok" /\ EdgeRuns = 1) =>
        /\ Len(edge_indices) = Len(ActiveMirrors)
        /\ \A t \in 1..Len(edge_indices) :
               \E words \in {EdgeWords(ActiveMirrors[t])} :
                   \A a \in 1..Len(edge_indices[t]) :
                       /\ edge_indices[t][a][1] # edge_indices[t][a][2]
                       /\ \E n \in 1..Len(words) :
                              edge_indices[t][a] =
                                  <<_move(_vtable, 0, words[n]),
                                    _move(_vtable, 0, <<ActiveMirrors[t]>> \o words[n])>>

\* the cuboctahedron: mirror 1 alone is active
C9_Witness ==
    /\ cls = "Polyhedra"
    /\ upper_triangle = <<4, 2, 3>>
    /\ init_dist = <<0, 1, 0>>
    /\ EdgeRuns = 1
    /\ Len(edge_indices) = 1
    /\ num_edges = 24

\* C10: a call of build_geometry on an object that build_geometry has
\* already built leaves the counts and the index lists as they were.
C10_BuildIdempotent ==
    [][(calls.build >= 1 /\ calls'.build = calls.build + 1) =>
           /\ num_vertices' = num_vertices
           /\ num_edges' = num_edges
           /\ num_faces' = num_faces
           /\ edge_indices' = edge_indices
           /\ face_indices' = face_indices]_vars
====
